---------------------------- MODULE Spec2Model ----------------------------
(***************************************************************************)
(* A model of the relic build optimizer of GrowthDataOptimizer:            *)
(*   src/src/optimizer/solver.ts   class RelicSolver                       *)
(*   src/unnamed/part_002          the optimizer worker (self.onmessage)   *)
(*                                                                         *)
(* JavaScript strings are modelled as sequences of UTF-16 code units, so   *)
(* that template expansion, fingerprint construction and the default       *)
(* lexicographic Array.prototype.sort are computed as the engine computes  *)
(* them.  Relic objects are references: a relic is named by its 1-based    *)
(* position in the array of the request, and arrays of relics are          *)
(* sequences of such positions.                                            *)
(***************************************************************************)
EXTENDS Integers, Sequences, FiniteSets, TLC

VARIABLES
    pc,                \* position of the worker's onmessage handler
    request,           \* e.data of the message being handled
    categoryMap,       \* RelicSolver.categoryMap
    skillMaxLevels,    \* RelicSolver.skillMaxLevels
    relics,            \* RelicSolver.relics (positions in request.relics)
    validBuilds,       \* RelicSolver.validBuilds
    buildSet,          \* RelicSolver.buildSet, in insertion order
    passed,            \* history: builds that passed both threshold checks
    log,               \* history: the activations of backtrack, in call order
    posted,            \* messages posted for the request being handled
    prev,              \* history: the previous request and what was posted
    received,          \* history: the request as the caller posted it
    answers,           \* history: every request handled, with what was posted
    app,               \* App: results, isOptimizing, hasOptimized, errorMsg
    inbox,             \* messages posted to the App and not yet handled by it
    run                \* history: the number of calls of startOptimization

vars == <<pc, request, categoryMap, skillMaxLevels, relics, validBuilds,
          buildSet, passed, log, posted, prev, received, answers, app, inbox, run>>

---------------------------------------------------------------------------
(* Bounds of the model *)

\* the calls of startOptimization in one behaviour
MaxRuns == 2
\* the relics of a large inventory
LargeInv == 52

\* longest inventory of an ordinary request
MaxInv == 7
\* length of the inventory of the request that exhausts the build budget
BigInv == 14

---------------------------------------------------------------------------
(* Program constants *)

MAX_POINTS_PER_RELIC == 9
maxBuilds == 2000
BuildSize == 6
TopPerCategory == 15
CandidateFloor == 50
DefaultMaxLevel == 6
MainSkillMaxLevel == 6
CategoryWeight == 2
SkillWeight == 10

---------------------------------------------------------------------------
(* Strings as sequences of code units *)

Bulwark == <<66, 117, 108, 119, 97, 114, 107>>
Vanguard == <<86, 97, 110, 103, 117, 97, 114, 100>>
Support == <<83, 117, 112, 112, 111, 114, 116>>
Sentinel == <<83, 101, 110, 116, 105, 110, 101, 108>>
\* the literal '{Element}'
ElementPlaceholder == <<123, 69, 108, 101, 109, 101, 110, 116, 125>>
\* '-', ':' and '|'
DashStr == <<45>>
ColonStr == <<58>>
BarStr == <<124>>

RECURSIVE NumberToString(_)
\* `${n}` for an integer n >= 0: its decimal digits
NumberToString(n) ==
    IF n < 10 THEN <<48 + n>>
    ELSE NumberToString(n \div 10) \o <<48 + (n % 10)>>

\* a < b in the order of the default sort: by code units at the first
\* position where the strings differ, a proper prefix first
StrLess(a, b) ==
    LET common == IF Len(a) < Len(b) THEN Len(a) ELSE Len(b)
        differ == {k \in 1..common : a[k] # b[k]}
    IN  IF differ = {} THEN Len(a) < Len(b)
        ELSE LET first == CHOOSE k \in differ : \A j \in differ : k <= j
             IN  a[first] < b[first]

RECURSIVE InsertString(_, _)
InsertString(sorted, x) ==
    IF sorted = << >> THEN <<x>>
    ELSE IF StrLess(x, Head(sorted)) THEN <<x>> \o sorted
    ELSE <<Head(sorted)>> \o InsertString(Tail(sorted), x)

RECURSIVE SortStrings(_)
\* Array.prototype.sort() without a comparator, on an array of strings
SortStrings(s) ==
    IF s = << >> THEN << >>
    ELSE InsertString(SortStrings(SubSeq(s, 1, Len(s) - 1)), s[Len(s)])

RECURSIVE Join(_, _)
\* Array.prototype.join(sep)
Join(s, sep) ==
    IF s = << >> THEN << >>
    ELSE IF Len(s) = 1 THEN s[1]
    ELSE s[1] \o sep \o Join(Tail(s), sep)

RECURSIVE IndexOfFrom(_, _, _)
IndexOfFrom(s, pat, k) ==
    IF k + Len(pat) - 1 > Len(s) THEN 0
    ELSE IF SubSeq(s, k, k + Len(pat) - 1) = pat THEN k
    ELSE IndexOfFrom(s, pat, k + 1)

\* 1-based position of the first occurrence of pat in s, 0 when there is none
IndexOf(s, pat) == IndexOfFrom(s, pat, 1)

\* String.prototype.includes
Includes(s, pat) == IndexOf(s, pat) # 0

\* String.prototype.replace with a string pattern: the first occurrence only
ReplaceFirst(s, pat, rep) ==
    LET k == IndexOf(s, pat)
    IN  IF k = 0 THEN s
        ELSE SubSeq(s, 1, k - 1) \o rep \o SubSeq(s, k + Len(pat), Len(s))

---------------------------------------------------------------------------
(* Maps and objects with string keys *)

EmptyMap == << >>

\* Map.prototype.set / obj[k] = v
MapSet(m, k, v) == (k :> v) @@ m

\* obj[k] || 0
GetOrZero(m, k) == IF k \in DOMAIN m THEN m[k] ELSE 0

RECURSIVE SumOver(_, _)
SumOver(m, keys) ==
    IF keys = {} THEN 0
    ELSE LET k == CHOOSE x \in keys : TRUE
         IN  m[k] + SumOver(m, keys \ {k})

\* Object.values(m).reduce((acc, v) => acc + v, 0)
SumValues(m) == SumOver(m, DOMAIN m)

Min(a, b) == IF a < b THEN a ELSE b

---------------------------------------------------------------------------
(* Index Builder: the constructor of RelicSolver *)

NoMaps == [cat |-> EmptyMap, max |-> EmptyMap]

RECURSIVE AddMainSkills(_, _, _)
\* catData.main_skills.forEach(skill => ...)
AddMainSkills(maps, catName, skills) ==
    IF skills = << >> THEN maps
    ELSE AddMainSkills([cat |-> MapSet(maps.cat, Head(skills), catName),
                        max |-> MapSet(maps.max, Head(skills), MainSkillMaxLevel)],
                       catName, Tail(skills))

RECURSIVE AddElements(_, _, _, _, _)
\* relicInfo.ELEMENTS?.forEach(el => ...)
AddElements(maps, catName, skillTemplate, maxLvl, elements) ==
    IF elements = << >> THEN maps
    ELSE LET specSkill == ReplaceFirst(skillTemplate, ElementPlaceholder, Head(elements))
         IN  AddElements([cat |-> MapSet(maps.cat, specSkill, catName),
                          max |-> MapSet(maps.max, specSkill, maxLvl)],
                         catName, skillTemplate, maxLvl, Tail(elements))

RECURSIVE AddAuxSkills(_, _, _, _)
\* for (const [skillTemplate, maxLvl] of Object.entries(catData.aux_skills))
AddAuxSkills(maps, catName, aux, info) ==
    IF aux = << >> THEN maps
    ELSE LET skillTemplate == Head(aux)[1]
             maxLvl == Head(aux)[2]
             next ==
                 IF Includes(skillTemplate, ElementPlaceholder)
                 THEN IF "ELEMENTS" \in DOMAIN info
                      THEN AddElements(maps, catName, skillTemplate, maxLvl, info.ELEMENTS)
                      ELSE maps
                 ELSE [cat |-> MapSet(maps.cat, skillTemplate, catName),
                       max |-> MapSet(maps.max, skillTemplate, maxLvl)]
         IN  AddAuxSkills(next, catName, Tail(aux), info)

RECURSIVE AddRelicTypes(_, _, _)
\* AddRelicTypes that stops after the first category
AddRelicTypesFirstOnly(maps, types, info) ==
    IF types = << >> THEN maps
    ELSE LET catName == Head(types)[1]
             catData == Head(types)[2]
             withMain == IF "main_skills" \in DOMAIN catData
                         THEN AddMainSkills(maps, catName, catData.main_skills)
                         ELSE maps
         IN  IF "aux_skills" \in DOMAIN catData
             THEN AddAuxSkills(withMain, catName, catData.aux_skills, info)
             ELSE withMain

\* for (const [catName, catData] of Object.entries(relicInfo.RELIC_TYPES))
AddRelicTypes(maps, types, info) ==
    IF types = << >> THEN maps
    ELSE LET catName == Head(types)[1]
             catData == Head(types)[2]
             withMain == IF "main_skills" \in DOMAIN catData
                         THEN AddMainSkills(maps, catName, catData.main_skills)
                         ELSE maps
             withAux == IF "aux_skills" \in DOMAIN catData
                        THEN AddAuxSkills(withMain, catName, catData.aux_skills, info)
                        ELSE withMain
         IN  AddRelicTypes(withAux, Tail(types), info)

RECURSIVE ApplySkillsData(_, _)
\* ApplySkillsData that leaves a name alone which the taxonomy has set
ApplySkillsDataKeepsTaxonomy(maps, skillsData) ==
    IF skillsData = << >> THEN maps
    ELSE LET skillName == Head(skillsData)[1]
             def == Head(skillsData)[2]
         IN  IF skillName \in DOMAIN maps.cat
             THEN ApplySkillsData(maps, Tail(skillsData))
             ELSE ApplySkillsData([cat |-> MapSet(maps.cat, skillName, def.type),
                                   max |-> MapSet(maps.max, skillName, def.maxlevel)],
                                  Tail(skillsData))

\* for (const [skillName, def] of Object.entries(skillsData))
ApplySkillsData(maps, skillsData) ==
    IF skillsData = << >> THEN maps
    ELSE LET skillName == Head(skillsData)[1]
             def == Head(skillsData)[2]
         IN  ApplySkillsData([cat |-> MapSet(maps.cat, skillName, def.type),
                              max |-> MapSet(maps.max, skillName, def.maxlevel)],
                             Tail(skillsData))

\* the two maps the constructor leaves in categoryMap and skillMaxLevels
BuildIndex(skillsData, relicInfo) ==
    LET fromInfo == IF "RELIC_TYPES" \in DOMAIN relicInfo
                    THEN AddRelicTypes(NoMaps, relicInfo.RELIC_TYPES, relicInfo)
                    ELSE NoMaps
    IN  ApplySkillsData(fromInfo, skillsData)

---------------------------------------------------------------------------
(* Relics, skills and constraints *)

\* a main_skill that is null
NoSkill == [null |-> TRUE]
IsSkill(s) == "name" \in DOMAIN s

Skill(n, l) == [name |-> n, level |-> l]
MakeRelic(t, m, a) == [type |-> t, main_skill |-> m, aux_skills |-> a]

\* the relic object at position id of the request's array
RelicAt(id) == request.relics[id]

\* [r.main_skill, ...r.aux_skills] without the entries the loops skip
SkillsOf(r) == SelectSeq(<<r.main_skill>> \o r.aux_skills, IsSkill)

\* constraints.allowedSlots is set
HasSlots(c) == "allowedSlots" \in DOMAIN c

\* Object.keys(allowedSlots)
RECURSIVE SlotKeys(_)
SlotKeys(slots) ==
    IF slots = << >> THEN << >> ELSE <<Head(slots)[1]>> \o SlotKeys(Tail(slots))

RECURSIVE SlotLookup(_, _)
\* SlotLookup that gives a category without an entry every slot of a build
SlotLookupAbsentFree(slots, type) ==
    IF \E e \in 1..Len(slots) : slots[e][1] = type
    THEN slots[CHOOSE e \in 1..Len(slots) : slots[e][1] = type][2]
    ELSE BuildSize

\* allowedSlots[type] || 0
SlotLookup(slots, type) ==
    IF slots = << >> THEN 0
    ELSE IF Head(slots)[1] = type THEN Head(slots)[2]
    ELSE SlotLookup(Tail(slots), type)

---------------------------------------------------------------------------
(* Candidate Reducer: the first half of solve() *)

RECURSIVE ScoreSkills(_, _, _)
\* ScoreSkills with the two weights exchanged
ScoreSkillsWeightsExchanged(skills, c, cmap) ==
    IF skills = << >> THEN 0
    ELSE LET skill == Head(skills)
             byCategory ==
                 IF /\ skill.name \in DOMAIN cmap
                    /\ cmap[skill.name] # << >>
                    /\ cmap[skill.name] \in DOMAIN c.targetCategoryLevels
                    /\ c.targetCategoryLevels[cmap[skill.name]] # 0
                 THEN skill.level * SkillWeight ELSE 0
             byName ==
                 IF /\ skill.name \in DOMAIN c.targetSkillLevels
                    /\ c.targetSkillLevels[skill.name] # 0
                 THEN skill.level * CategoryWeight ELSE 0
         IN  byCategory + byName + ScoreSkills(Tail(skills), c, cmap)

ScoreSkills(skills, c, cmap) ==
    IF skills = << >> THEN 0
    ELSE LET skill == Head(skills)
             byCategory ==
                 IF /\ skill.name \in DOMAIN cmap
                    /\ cmap[skill.name] # << >>
                    /\ cmap[skill.name] \in DOMAIN c.targetCategoryLevels
                    /\ c.targetCategoryLevels[cmap[skill.name]] # 0
                 THEN skill.level * CategoryWeight ELSE 0
             byName ==
                 IF /\ skill.name \in DOMAIN c.targetSkillLevels
                    /\ c.targetSkillLevels[skill.name] # 0
                 THEN skill.level * SkillWeight ELSE 0
         IN  byCategory + byName + ScoreSkills(Tail(skills), c, cmap)

\* the score solve() gives relic r
Score(r, c, cmap) == ScoreSkills(SkillsOf(r), c, cmap)

\* SortScored with the lowest score first
SortScoredAscending(s) ==
    LET before(i, j) == \/ s[i].score < s[j].score
                        \/ s[i].score = s[j].score /\ i < j
        place(i) == Cardinality({j \in 1..Len(s) : before(j, i)}) + 1
    IN  [r \in 1..Len(s) |-> s[CHOOSE i \in 1..Len(s) : place(i) = r]]

\* .sort((a, b) => b.score - a.score): descending by score, stable; the
\* element at position i comes before the one at j if its score is higher,
\* or the same and i < j
SortScored(s) ==
    LET before(i, j) == \/ s[i].score > s[j].score
                        \/ s[i].score = s[j].score /\ i < j
        place(i) == Cardinality({j \in 1..Len(s) : before(j, i)}) + 1
    IN  [r \in 1..Len(s) |-> s[CHOOSE i \in 1..Len(s) : place(i) = r]]

\* .slice(0, n)
Slice(s, n) == SubSeq(s, 1, Min(n, Len(s)))

InSeq(x, s) == \E k \in 1..Len(s) : s[k] = x

\* Array.from(new Set(s)): the first occurrence of every element
Unique(s) ==
    LET firsts == {k \in 1..Len(s) : \A j \in 1..(k - 1) : s[j] # s[k]}
    IN  [r \in 1..Cardinality(firsts) |->
            s[CHOOSE k \in firsts : Cardinality({j \in firsts : j < k}) = r - 1]]

RelicsOfScored(s) == [k \in 1..Len(s) |-> s[k].relic]

DefaultCategories == <<Bulwark, Vanguard, Support, Sentinel>>

RECURSIVE TopDiverse(_, _)
\* TopDiverse that keeps nothing for any category
TopDiverseNone(cats, scored) == << >>

\* for (const cat of requiredCategories) ... topDiverseRelics.push(...)
TopDiverse(cats, scored) ==
    IF cats = << >> THEN << >>
    ELSE LET group == SelectSeq(scored, LAMBDA it : RelicAt(it.relic).type = Head(cats))
         IN  RelicsOfScored(Slice(SortScored(group), TopPerCategory))
             \o TopDiverse(Tail(cats), scored)

\* Candidates without the padding to the floor
CandidatesWithoutPadding(inv, c, cmap) ==
    LET scoredRelics == [k \in 1..Len(inv) |->
                            [relic |-> inv[k], score |-> Score(RelicAt(inv[k]), c, cmap)]]
        requiredCategories == IF HasSlots(c) THEN SlotKeys(c.allowedSlots)
                              ELSE DefaultCategories
    IN  Unique(TopDiverse(requiredCategories, scoredRelics))

\* the array solve() stores in this.relics before the search
Candidates(inv, c, cmap) ==
    LET scoredRelics == [k \in 1..Len(inv) |->
                            [relic |-> inv[k], score |-> Score(RelicAt(inv[k]), c, cmap)]]
        requiredCategories == IF HasSlots(c) THEN SlotKeys(c.allowedSlots)
                              ELSE DefaultCategories
        uniqueTop == Unique(TopDiverse(requiredCategories, scoredRelics))
        additional == Slice(SortScored(SelectSeq(scoredRelics,
                                LAMBDA it : ~InSeq(it.relic, uniqueTop))),
                            CandidateFloor - Len(uniqueTop))
    IN  IF Len(uniqueTop) < CandidateFloor
        THEN uniqueTop \o RelicsOfScored(additional)
        ELSE uniqueTop

---------------------------------------------------------------------------
(* Build Evaluator *)

\* the pairs <<relic, skill>> the two loops of calculateBuildStats visit
SkillEntries(build) ==
    UNION {{<<p, q>> : q \in 1..Len(SkillsOf(RelicAt(build[p])))} : p \in 1..Len(build)}

\* the skill the inner loop holds at entry e
SkillEntry(build, e) == SkillsOf(RelicAt(build[e[1]]))[e[2]]

\* what (x || 0) + skill.level has summed once the loops have visited the
\* entries E; a level is not negative
LevelsAdded(build, E) ==
    Cardinality(UNION {{<<e, u>> : u \in 1..SkillEntry(build, e).level} : e \in E})

\* String(undefined), the key of an object indexed with undefined
UndefinedStr == <<117, 110, 100, 101, 102, 105, 110, 101, 100>>

\* this.categoryMap.get(name)
CategoryOf(name, cmap) == IF name \in DOMAIN cmap THEN cmap[name] ELSE UndefinedStr

\* HasCategory without the test: every skill is summed under the key its
\* lookup gives
HasCategoryAlways(name, cmap) == TRUE

\* if (cat)
HasCategory(name, cmap) == name \in DOMAIN cmap /\ cmap[name] # << >>

\* calculateBuildStats(build)
CalculateBuildStats(build, cmap) ==
    LET entries == SkillEntries(build)
        names == {SkillEntry(build, e).name : e \in entries}
        counted == {e \in entries : HasCategory(SkillEntry(build, e).name, cmap)}
        cats == {CategoryOf(SkillEntry(build, e).name, cmap) : e \in counted}
    IN  [rawSkillLevels |->
             [n \in names |->
                 LevelsAdded(build, {e \in entries : SkillEntry(build, e).name = n})],
         rawCategoryLevels |->
             [cat \in cats |->
                 LevelsAdded(build, {e \in counted :
                     CategoryOf(SkillEntry(build, e).name, cmap) = cat})]]

\* MeetsCategoryTargets with <= for <
MeetsCategoryTargetsStrict(rawCategoryLevels, c) ==
    \A cat \in DOMAIN c.targetCategoryLevels :
        ~(GetOrZero(rawCategoryLevels, cat) <= c.targetCategoryLevels[cat])

\* MeetsCategoryTargets with the comparison turned round
MeetsCategoryTargetsInverted(rawCategoryLevels, c) ==
    \A cat \in DOMAIN c.targetCategoryLevels :
        ~(GetOrZero(rawCategoryLevels, cat) > c.targetCategoryLevels[cat])

\* the loop over targetCategoryLevels returns at no category
MeetsCategoryTargets(rawCategoryLevels, c) ==
    \A cat \in DOMAIN c.targetCategoryLevels :
        ~(GetOrZero(rawCategoryLevels, cat) < c.targetCategoryLevels[cat])

\* MeetsSkillTargets without || 0: a skill no relic of the build has compares
\* as undefined < target, which is false
MeetsSkillTargetsPresentOnly(rawSkillLevels, c) ==
    \A skill \in DOMAIN c.targetSkillLevels \cap DOMAIN rawSkillLevels :
        ~(rawSkillLevels[skill] < c.targetSkillLevels[skill])

\* MeetsSkillTargets with the comparison turned round
MeetsSkillTargetsInverted(rawSkillLevels, c) ==
    \A skill \in DOMAIN c.targetSkillLevels :
        ~(GetOrZero(rawSkillLevels, skill) > c.targetSkillLevels[skill])

\* the loop over targetSkillLevels returns at no skill
MeetsSkillTargets(rawSkillLevels, c) ==
    \A skill \in DOMAIN c.targetSkillLevels :
        ~(GetOrZero(rawSkillLevels, skill) < c.targetSkillLevels[skill])

\* this.skillMaxLevels.get(skill) ?? 6
MaxLevelOf(maxmap, skill) ==
    IF skill \in DOMAIN maxmap THEN maxmap[skill] ELSE DefaultMaxLevel

\* EffectiveLevels without the cap
EffectiveLevelsUncapped(rawSkillLevels, maxmap) == rawSkillLevels

\* effectiveSkillLevels as evaluateBuild fills it
EffectiveLevels(rawSkillLevels, maxmap) ==
    [s \in DOMAIN rawSkillLevels |-> Min(rawSkillLevels[s], MaxLevelOf(maxmap, s))]

SkillString(s) == s.name \o ColonStr \o NumberToString(s.level)

\* RelicFingerprint without the sort of the aux skills
RelicFingerprintUnsortedAux(r) ==
    LET main == SkillString(r.main_skill)
        aux == Join([k \in 1..Len(r.aux_skills) |-> SkillString(r.aux_skills[k])], DashStr)
    IN  r.type \o DashStr \o main \o DashStr \o aux

\* the key of one relic; r.main_skill must not be null
RelicFingerprint(r) ==
    LET main == SkillString(r.main_skill)
        aux == Join(SortStrings([k \in 1..Len(r.aux_skills) |-> SkillString(r.aux_skills[k])]),
                    DashStr)
    IN  r.type \o DashStr \o main \o DashStr \o aux

BuildFingerprint(build) ==
    Join(SortStrings([k \in 1..Len(build) |-> RelicFingerprint(RelicAt(build[k]))]), BarStr)

\* reading r.main_skill.name of a relic whose main_skill is null throws
FingerprintThrows(build) ==
    \E k \in 1..Len(build) : ~IsSkill(RelicAt(build[k]).main_skill)

---------------------------------------------------------------------------
(* Result Ranker *)

\* the two sums the comparator of the final sort forms of a build
BuildKey(b) == <<SumValues(b.rawSkillLevels), SumValues(b.effectiveSkillLevels)>>

\* CompareKeys with the tie-break ascending
CompareKeysTieAscending(ka, kb) ==
    IF kb[1] # ka[1] THEN kb[1] - ka[1] ELSE ka[2] - kb[2]

CompareKeys(ka, kb) ==
    IF kb[1] # ka[1] THEN kb[1] - ka[1] ELSE kb[2] - ka[2]

\* the comparator of the final sort: > 0 when b goes before a
CompareBuilds(a, b) == CompareKeys(BuildKey(a), BuildKey(b))

RECURSIVE ConcatByKey(_, _)
\* the builds of s whose keys are in keys: those of the key the comparator
\* puts first, in the order they have in s, then the rest
ConcatByKey(s, keys) ==
    IF keys = {} THEN << >>
    ELSE LET first == CHOOSE k \in keys : \A j \in keys : CompareKeys(k, j) <= 0
         IN  SelectSeq(s, LAMBDA b : BuildKey(b) = first)
             \o ConcatByKey(s, keys \ {first})

\* this.validBuilds.sort(comparator): Array.prototype.sort is stable, so
\* builds the comparator calls equal keep their order
SortBuilds(s) == ConcatByKey(s, {BuildKey(s[k]) : k \in 1..Len(s)})

\* SortOutcomes of a sort that is not stable: builds the comparator calls
\* equal may end in either order
SortOutcomesUnstable(s) ==
    {SortBuilds(s), SortBuilds([k \in 1..Len(s) |-> s[Len(s) + 1 - k]])}

\* the arrays the sort may leave in validBuilds
SortOutcomes(s) == {SortBuilds(s)}

---------------------------------------------------------------------------
(* Build Evaluator and Search Engine: evaluateBuild and backtrack.  solve()  *)
(* runs to completion inside one handler, so the search is one step of the   *)
(* model; acc carries what the activations of backtrack share, and log       *)
(* records every activation.                                                 *)

\* Verdict with the fingerprint computed before the threshold checks
VerdictFingerprintFirst(build, seen) ==
    LET stats == CalculateBuildStats(build, categoryMap)
    IN  IF FingerprintThrows(build) THEN "throw"
        ELSE IF ~MeetsCategoryTargets(stats.rawCategoryLevels, request.constraints)
        THEN "reject"
        ELSE IF ~MeetsSkillTargets(stats.rawSkillLevels, request.constraints)
        THEN "reject"
        ELSE IF InSeq(BuildFingerprint(build), seen) THEN "duplicate"
        ELSE "accept"

\* what evaluateBuild does to a build: "reject", "throw", "duplicate" or "accept"
Verdict(build, seen) ==
    LET stats == CalculateBuildStats(build, categoryMap)
    IN  IF ~MeetsCategoryTargets(stats.rawCategoryLevels, request.constraints)
        THEN "reject"
        ELSE IF ~MeetsSkillTargets(stats.rawSkillLevels, request.constraints)
        THEN "reject"
        ELSE IF FingerprintThrows(build) THEN "throw"
        ELSE IF InSeq(BuildFingerprint(build), seen) THEN "duplicate"
        ELSE "accept"

\* the BuildResult evaluateBuild pushes
BuildResult(build) ==
    LET stats == CalculateBuildStats(build, categoryMap)
    IN  [relics |-> build,
         rawCategoryLevels |-> stats.rawCategoryLevels,
         rawSkillLevels |-> stats.rawSkillLevels,
         effectiveSkillLevels |-> EffectiveLevels(stats.rawSkillLevels, skillMaxLevels)]

\* evaluateBuild(build)
EvaluateBuild(acc, build) ==
    LET verdict == Verdict(build, acc.buildSet)
    IN  [validBuilds |-> IF verdict = "accept"
                         THEN Append(acc.validBuilds, BuildResult(build))
                         ELSE acc.validBuilds,
         buildSet |-> IF verdict = "accept"
                      THEN Append(acc.buildSet, BuildFingerprint(build))
                      ELSE acc.buildSet,
         passed |-> IF verdict = "reject" THEN acc.passed ELSE acc.passed \cup {build},
         thrown |-> verdict = "throw",
         log |-> acc.log]

\* currentBuild.filter(r => r.type === nextRelic.type).length
SlotCount(build, type) ==
    Cardinality({k \in 1..Len(build) : RelicAt(build[k]).type = type})

\* CanReachAllCategories with a bound of one point more for each relic
CanReachWithLooseBound(build, d, c, cmap) ==
    LET rawCategoryLevels == CalculateBuildStats(build, cmap).rawCategoryLevels
        remainingSlots == BuildSize - d
    IN  \A cat \in DOMAIN c.targetCategoryLevels :
            ~(GetOrZero(rawCategoryLevels, cat)
                  + remainingSlots * (MAX_POINTS_PER_RELIC + 1)
                < c.targetCategoryLevels[cat])

\* the feasibility test at the head of an inner activation
CanReachAllCategories(build, d, c, cmap) ==
    LET rawCategoryLevels == CalculateBuildStats(build, cmap).rawCategoryLevels
        remainingSlots == BuildSize - d
    IN  \A cat \in DOMAIN c.targetCategoryLevels :
            ~(GetOrZero(rawCategoryLevels, cat) + remainingSlots * MAX_POINTS_PER_RELIC
                < c.targetCategoryLevels[cat])

\* BudgetSpent with > for >=
BudgetSpentLate(builds) == Len(builds) > maxBuilds

\* the accepted-result budget is used up
BudgetSpent(builds) == Len(builds) >= maxBuilds

\* IsLeaf with the depth test off by one
IsLeafEarly(d) == d = BuildSize - 1

\* a complete build
IsLeaf(d) == d = BuildSize

\* SlotFull with > for >=
SlotFullLate(build, type, c) ==
    /\ HasSlots(c)
    /\ SlotCount(build, type) > SlotLookup(c.allowedSlots, type)

\* the quota test of the loop body
SlotFull(build, type, c) ==
    /\ HasSlots(c)
    /\ SlotCount(build, type) >= SlotLookup(c.allowedSlots, type)

\* the record of one activation: the indices i chosen on the way to it, its
\* arguments, validBuilds.length when it is entered, and what it goes on to
\* do: "return" at the budget test, "evaluate" its build, "prune", or "loop"
Activation(acc, path, startIndex, d, did) ==
    [path |-> path, startIndex |-> startIndex, depth |-> d,
     accepted |-> Len(acc.validBuilds), did |-> did]

Entered(acc, path, startIndex, d, did) ==
    [acc EXCEPT !.log = Append(@, Activation(acc, path, startIndex, d, did))]

RECURSIVE Backtrack(_, _, _, _, _)
RECURSIVE Loop(_, _, _, _, _)

\* Backtrack with the budget tested at the leaves only
BacktrackBudgetAtLeaf(acc, currentBuild, path, startIndex, d) ==
    IF IsLeaf(d)
    THEN IF BudgetSpent(acc.validBuilds)
         THEN Entered(acc, path, startIndex, d, "return")
         ELSE EvaluateBuild(Entered(acc, path, startIndex, d, "evaluate"), currentBuild)
    ELSE IF ~CanReachAllCategories(currentBuild, d, request.constraints, categoryMap)
    THEN Entered(acc, path, startIndex, d, "prune")
    ELSE Loop(Entered(acc, path, startIndex, d, "loop"), currentBuild, path, startIndex, d)

\* backtrack(currentBuild, startIndex, depth)
Backtrack(acc, currentBuild, path, startIndex, d) ==
    IF BudgetSpent(acc.validBuilds)
    THEN Entered(acc, path, startIndex, d, "return")
    ELSE IF IsLeaf(d)
    THEN EvaluateBuild(Entered(acc, path, startIndex, d, "evaluate"), currentBuild)
    ELSE IF ~CanReachAllCategories(currentBuild, d, request.constraints, categoryMap)
    THEN Entered(acc, path, startIndex, d, "prune")
    ELSE Loop(Entered(acc, path, startIndex, d, "loop"), currentBuild, path, startIndex, d)

\* Loop with the cursor i passed down instead of i + 1
LoopSameCursor(acc, currentBuild, path, i, d) ==
    IF acc.thrown \/ ~(i < Len(relics)) THEN acc
    ELSE IF SlotFull(currentBuild, RelicAt(relics[i + 1]).type, request.constraints)
    THEN Loop(acc, currentBuild, path, i + 1, d)
    ELSE Loop(Backtrack(acc, Append(currentBuild, relics[i + 1]), Append(path, i),
                        i, d + 1),
              currentBuild, path, i + 1, d)

\* Loop with every deeper level started at index 0 again
LoopFromStart(acc, currentBuild, path, i, d) ==
    IF acc.thrown \/ ~(i < Len(relics)) THEN acc
    ELSE IF SlotFull(currentBuild, RelicAt(relics[i + 1]).type, request.constraints)
    THEN Loop(acc, currentBuild, path, i + 1, d)
    ELSE Loop(Backtrack(acc, Append(currentBuild, relics[i + 1]), Append(path, i),
                        0, d + 1),
              currentBuild, path, i + 1, d)

\* for (let i = startIndex; i < this.relics.length; i++) from index i on; a
\* throw of evaluateBuild ends every loop on the way out
Loop(acc, currentBuild, path, i, d) ==
    IF acc.thrown \/ ~(i < Len(relics)) THEN acc
    ELSE IF SlotFull(currentBuild, RelicAt(relics[i + 1]).type, request.constraints)
    THEN Loop(acc, currentBuild, path, i + 1, d)
    ELSE Loop(Backtrack(acc, Append(currentBuild, relics[i + 1]), Append(path, i),
                        i + 1, d + 1),
              currentBuild, path, i + 1, d)

\* this.backtrack([], 0, 0) on the accumulators solve() has just emptied
Search ==
    Backtrack([validBuilds |-> << >>, buildSet |-> << >>, passed |-> {},
               thrown |-> FALSE, log |-> << >>],
              << >>, << >>, 0, 0)

---------------------------------------------------------------------------
(* Requests *)

NoRelicInfo == [null |-> TRUE]
NoPrev == [null |-> TRUE]

MakeRequest(inv, c, tax) ==
    [relics |-> inv, constraints |-> c,
     skillsData |-> tax.skillsData, relicInfo |-> tax.relicInfo]

---------------------------------------------------------------------------
(* The requests the model draws from *)

\* skill names: 'HP', 'DF', 'HL', 'AT', 'XX', 'ZZ', '{Element}R', 'FiR', 'IcR'
HP == <<72, 80>>
DF == <<68, 70>>
HL == <<72, 76>>
AT == <<65, 84>>
XX == <<88, 88>>
ZZ == <<90, 90>>
ElementR == ElementPlaceholder \o <<82>>
FiR == <<70, 105, 82>>
IcR == <<73, 99, 82>>

\* a taxonomy of the shape of relicinfo.json, and overrides of the shape of skills.json
TaxonomyA ==
    [RELIC_TYPES |->
        << <<Bulwark, [main_skills |-> <<HP>>,
                       aux_skills |-> << <<DF, 3>>, <<ElementR, 2>> >>]>>,
           <<Support, [main_skills |-> <<HL>>, aux_skills |-> << >>]>> >>,
     ELEMENTS |-> << <<70, 105>>, <<73, 99>> >>]

OverridesA ==
    << <<HP, [type |-> Bulwark, maxlevel |-> 5]>>,
       <<AT, [type |-> Vanguard, maxlevel |-> 3]>> >>

\* a taxonomy that has 'FiR' with a maximum of its own before the template
\* '{Element}R' of the same category
TaxonomyD ==
    [RELIC_TYPES |->
        << <<Bulwark, [main_skills |-> <<HP>>,
                       aux_skills |-> << <<FiR, 1>>, <<ElementR, 2>> >>]>>,
           <<Support, [main_skills |-> <<HL>>, aux_skills |-> << <<DF, 3>> >>]>> >>,
     ELEMENTS |-> << <<70, 105>>, <<73, 99>> >>]

Taxonomies ==
    { [skillsData |-> << >>, relicInfo |-> NoRelicInfo],
      [skillsData |-> OverridesA, relicInfo |-> TaxonomyA] }

\* relics 1 and 2 have the same composition, and so have 3 and 4, whose
\* aux_skills differ in order only; XX is in no taxonomy
PoolA ==
    << MakeRelic(Bulwark, Skill(HP, 3), <<Skill(DF, 2)>>),
       MakeRelic(Bulwark, Skill(HP, 3), <<Skill(DF, 2)>>),
       MakeRelic(Support, Skill(HL, 2), <<Skill(FiR, 1), Skill(DF, 1)>>),
       MakeRelic(Support, Skill(HL, 2), <<Skill(DF, 1), Skill(FiR, 1)>>),
       MakeRelic(Support, Skill(HL, 4), << >>),
       MakeRelic(Bulwark, Skill(HP, 2), <<Skill(XX, 3)>>),
       MakeRelic(Support, Skill(XX, 4), <<Skill(XX, 3)>>),
       MakeRelic(Sentinel, Skill(AT, 2), <<Skill(IcR, 2)>>) >>

\* relic 7 has no main_skill
PoolB ==
    << MakeRelic(Vanguard, Skill(AT, 2), <<Skill(HP, 1)>>),
       MakeRelic(Bulwark, Skill(HP, 6), <<Skill(DF, 3)>>),
       MakeRelic(Bulwark, Skill(HP, 4), << >>),
       MakeRelic(Support, Skill(HL, 1), <<Skill(DF, 2), Skill(XX, 1)>>),
       MakeRelic(Vanguard, Skill(AT, 3), <<Skill(AT, 1)>>),
       MakeRelic(Support, Skill(HL, 3), << >>),
       MakeRelic(Sentinel, NoSkill, <<Skill(DF, 1)>>),
       MakeRelic(Bulwark, Skill(HP, 1), <<Skill(IcR, 2)>>) >>

\* the first n relics of a pool, the pool repeated when n exceeds its length
Inventory(pool, n) == [k \in 1..n |-> pool[((k - 1) % Len(pool)) + 1]]

Inventories == {Inventory(pool, n) : pool \in {PoolA, PoolB}, n \in 0..MaxInv}

\* relics whose three skills all map to Bulwark in TaxonomyA, each skill at
\* its maximum level there: 5 + 3 + 2 in relics 1 to 6
PoolH ==
    << MakeRelic(Bulwark, Skill(HP, 5), <<Skill(DF, 3), Skill(FiR, 2)>>),
       MakeRelic(Bulwark, Skill(HP, 5), <<Skill(DF, 3), Skill(IcR, 2)>>),
       MakeRelic(Bulwark, Skill(HP, 5), <<Skill(FiR, 2), Skill(DF, 3)>>),
       MakeRelic(Bulwark, Skill(HP, 5), <<Skill(IcR, 2), Skill(DF, 3)>>),
       MakeRelic(Bulwark, Skill(HP, 5), <<Skill(DF, 3), Skill(FiR, 2)>>),
       MakeRelic(Bulwark, Skill(HP, 5), <<Skill(DF, 3), Skill(IcR, 2)>>),
       MakeRelic(Bulwark, Skill(HP, 4), <<Skill(DF, 3)>>) >>

Targets(cat, skill) == [targetCategoryLevels |-> cat, targetSkillLevels |-> skill]

WithSlots(c, slots) ==
    [targetCategoryLevels |-> c.targetCategoryLevels,
     targetSkillLevels |-> c.targetSkillLevels,
     allowedSlots |-> slots]

One(k, v) == MapSet(EmptyMap, k, v)

\* the constraints of test_optimizer.ts, with the skill names of the model
TestConstraints ==
    WithSlots(Targets(MapSet(One(Bulwark, 12), Support, 8), MapSet(One(HP, 6), DF, 4)),
              << <<Support, 4>>, <<Bulwark, 2>> >>)

ConstraintSets ==
    { Targets(EmptyMap, EmptyMap),
      Targets(One(Bulwark, 0), EmptyMap),
      Targets(One(Bulwark, 16), EmptyMap),
      Targets(One(Bulwark, 55), EmptyMap),
      Targets(EmptyMap, One(XX, 0)),
      Targets(EmptyMap, One(ZZ, 1)),
      Targets(EmptyMap, One(ZZ, 0)),
      WithSlots(Targets(EmptyMap, EmptyMap), << <<Support, 4>>, <<Bulwark, 2>> >>),
      WithSlots(Targets(EmptyMap, EmptyMap), << <<Bulwark, 3>> >>),
      TestConstraints }

Inputs ==
    {MakeRequest(inv, c, tax) : inv \in Inventories, c \in ConstraintSets, tax \in Taxonomies}

\* requests for builds of PoolH under a Bulwark minimum around 6 * 9
HeavyInputs ==
    { MakeRequest(Inventory(PoolH, n), Targets(One(Bulwark, t), EmptyMap),
                  [skillsData |-> OverridesA, relicInfo |-> TaxonomyA]) :
        n \in 6..7, t \in {54, 55, 60} }

\* requests under a quota map for the whole of PoolA, whose last relic is of
\* a category the map has no entry for
QuotaInputs ==
    { MakeRequest(PoolA, WithSlots(Targets(EmptyMap, EmptyMap), slots),
                  [skillsData |-> OverridesA, relicInfo |-> TaxonomyA]) :
        slots \in { << <<Support, 4>>, <<Bulwark, 2>> >>,
                    << <<Bulwark, 3>>, <<Support, 3>> >> } }

\* a request sent after another one: one that is answered with a build, and
\* one whose seventh relic has no main_skill
FollowUps ==
    { MakeRequest(Inventory(PoolA, 6),
                  WithSlots(Targets(EmptyMap, EmptyMap),
                            << <<Bulwark, 3>>, <<Support, 3>> >>),
                  [skillsData |-> OverridesA, relicInfo |-> TaxonomyA]),
      MakeRequest(Inventory(PoolB, 7), Targets(EmptyMap, EmptyMap),
                  [skillsData |-> OverridesA, relicInfo |-> TaxonomyA]) }

\* the skill name 'DF:3-FiR'
DF3FiR == DF \o ColonStr \o NumberToString(3) \o DashStr \o FiR

\* relic 7 has the one aux skill 'DF:3-FiR' at level 2 where relic 6 has DF 3
\* and FiR 2; relics 2 and 3 differ in the order of their aux skills, and
\* relic 8 has the composition of relic 1
PoolC ==
    << MakeRelic(Bulwark, Skill(HP, 3), <<Skill(DF, 2)>>),
       MakeRelic(Support, Skill(HL, 2), <<Skill(FiR, 1), Skill(DF, 1)>>),
       MakeRelic(Support, Skill(HL, 2), <<Skill(DF, 1), Skill(FiR, 1)>>),
       MakeRelic(Support, Skill(HL, 4), << >>),
       MakeRelic(Bulwark, Skill(HP, 2), <<Skill(XX, 3)>>),
       MakeRelic(Bulwark, Skill(HP, 5), <<Skill(DF, 3), Skill(FiR, 2)>>),
       MakeRelic(Bulwark, Skill(HP, 5), <<Skill(DF3FiR, 2)>>),
       MakeRelic(Bulwark, Skill(HP, 3), <<Skill(DF, 2)>>) >>

\* requests whose skill names are arbitrary strings, also in the taxonomy
NameInputs ==
    {MakeRequest(Inventory(PoolC, n), c, tax) :
        n \in 6..(MaxInv + 1), c \in ConstraintSets,
        tax \in Taxonomies \cup {[skillsData |-> OverridesA, relicInfo |-> TaxonomyD]}}

\* the main skill relics of type t have in the large inventories
MainSkillOf(t) ==
    IF t = Bulwark THEN HP ELSE IF t = Support THEN HL ELSE IF t = Vanguard THEN AT ELSE XX

\* n relics whose types go round cats, with main skill levels 1 to 5 and,
\* for every third relic, the aux skill DF at level 1 or 2
LargeInventory(n, cats) ==
    [k \in 1..n |->
        LET t == cats[((k - 1) % Len(cats)) + 1]
        IN  MakeRelic(t, Skill(MainSkillOf(t), ((k * 7) % 5) + 1),
                      IF k % 3 = 0 THEN <<Skill(DF, (k % 2) + 1)>> ELSE << >>)]

\* one relic of type Support, without the aux skill, for eight of type Bulwark
FewSupport ==
    <<Support, Bulwark, Bulwark, Bulwark, Bulwark, Bulwark, Bulwark, Bulwark, Bulwark>>

\* constraints under which the search ends at its first feasibility test
ReduceConstraints ==
    { Targets(One(Bulwark, 60), EmptyMap),
      Targets(One(Bulwark, 60), One(DF, 1)),
      WithSlots(Targets(One(Bulwark, 60), One(DF, 1)), << <<Support, 2>> >>),
      WithSlots(Targets(One(Bulwark, 60), One(DF, 1)),
                << <<Bulwark, 4>>, <<Support, 2>> >>) }

\* requests with inventories of more relics than one category's share of
\* the candidates and than the floor of the candidate set
ReduceInputs ==
    { MakeRequest(LargeInventory(n, cats), c,
                  [skillsData |-> OverridesA, relicInfo |-> TaxonomyA]) :
        n \in {LargeInv - 32, LargeInv, LargeInv + 18},
        cats \in {<<Bulwark>>, <<Bulwark, Support>>, DefaultCategories, FewSupport},
        c \in ReduceConstraints }

\* the requests the App sends in the model
AppRequests == FollowUps \cup HeavyInputs

\* BigInv relics of pairwise different composition: 'S', main skill 'A' at level k
BigInventory == [k \in 1..BigInv |-> MakeRelic(<<83>>, Skill(<<65>>, k), << >>)]

BigInputs ==
    { MakeRequest(BigInventory, Targets(EmptyMap, EmptyMap),
                  [skillsData |-> << >>, relicInfo |-> NoRelicInfo]) }

---------------------------------------------------------------------------
(* The worker (self.onmessage) and the App that owns it (startOptimization) *)

\* AuxSkillsAfterFingerprint with sort() called on r.aux_skills itself, in
\* the order of the skills' 'name:level' strings
AuxSkillsSortedInPlace(r) ==
    IF /\ Len(r.aux_skills) = 2
       /\ StrLess(SkillString(r.aux_skills[2]), SkillString(r.aux_skills[1]))
    THEN <<r.aux_skills[2], r.aux_skills[1]>>
    ELSE r.aux_skills

\* r.aux_skills after the fingerprint of r is built: map() returns a new
\* array and sort() sorts that one
AuxSkillsAfterFingerprint(r) == r.aux_skills

\* the caller's array of relics after the candidate reduction: map() and
\* filter() return new arrays, groupedByCat holds new arrays, the sorts act on
\* those, and line 107 assigns the field, not the array
RelicsAfterReduce(inv, c, cmap) == inv

\* the caller's array of relics after the search: of every build whose
\* fingerprint was built, the relics that have a main_skill
RelicsAfterSearch(inv, builds) ==
    LET touched == {id \in 1..Len(inv) :
                      /\ IsSkill(inv[id].main_skill)
                      /\ \E b \in builds : \E k \in 1..Len(b) : b[k] = id}
    IN  [id \in 1..Len(inv) |->
            IF id \in touched
            THEN [inv[id] EXCEPT !.aux_skills = AuxSkillsAfterFingerprint(inv[id])]
            ELSE inv[id]]

\* a solver that is not constructed, or no longer reachable
SolverGone ==
    /\ categoryMap' = EmptyMap
    /\ skillMaxLevels' = EmptyMap
    /\ relics' = << >>
    /\ validBuilds' = << >>
    /\ buildSet' = << >>
    /\ passed' = {}
    /\ log' = << >>

\* the state the App sets when startOptimization goes ahead; from names the
\* run whose message gave the results
AppOptimizing ==
    [results |-> << >>, isOptimizing |-> TRUE, hasOptimized |-> FALSE,
     errorMsg |-> "", from |-> 0]

InitWith(first) ==
    /\ pc = "construct"
    /\ request \in first
    /\ received = request
    /\ categoryMap = EmptyMap
    /\ skillMaxLevels = EmptyMap
    /\ relics = << >>
    /\ validBuilds = << >>
    /\ buildSet = << >>
    /\ passed = {}
    /\ log = << >>
    /\ posted = << >>
    /\ prev = NoPrev
    /\ answers = {}
    /\ app = AppOptimizing
    /\ inbox = << >>
    /\ run = 1

\* the worker has received its first message
Init == InitWith(Inputs \cup BigInputs \cup HeavyInputs \cup QuotaInputs \cup FollowUps)

\* a caller that has handled the answer posts another message to the same
\* worker: the previous request again, or a follow-up after a follow-up
OnMessage ==
    /\ pc = "idle"
    /\ inbox = << >>
    /\ request' \in {prev.request} \cup
                     (IF prev.request \in FollowUps THEN FollowUps ELSE {})
    /\ received' = request'
    /\ pc' = "construct"
    /\ posted' = << >>
    /\ UNCHANGED <<categoryMap, skillMaxLevels, relics, validBuilds, buildSet,
                   passed, log, prev, answers, app, inbox, run>>

\* new RelicSolver(relics, constraints, skillsData, relicInfo)
Construct ==
    /\ pc = "construct"
    /\ LET maps == BuildIndex(request.skillsData, request.relicInfo)
       IN  /\ categoryMap' = maps.cat
           /\ skillMaxLevels' = maps.max
    /\ relics' = [k \in 1..Len(request.relics) |-> k]
    /\ validBuilds' = << >>
    /\ buildSet' = << >>
    /\ pc' = "solve"
    /\ UNCHANGED <<request, passed, log, posted, prev, received, answers, app,
                   inbox, run>>

\* solve() up to this.relics = uniqueTop
SolveReduce ==
    /\ pc = "solve"
    /\ validBuilds' = << >>
    /\ buildSet' = << >>
    /\ relics' = Candidates(relics, request.constraints, categoryMap)
    /\ request' = [request EXCEPT
                     !.relics = RelicsAfterReduce(@, request.constraints, categoryMap)]
    /\ pc' = "search"
    /\ UNCHANGED <<categoryMap, skillMaxLevels, passed, log, posted, prev,
                   received, answers, app, inbox, run>>

\* this.backtrack([], 0, 0): it returns, or evaluateBuild throws
SolveSearch ==
    /\ pc = "search"
    /\ LET found == Search
       IN  /\ validBuilds' = found.validBuilds
           /\ buildSet' = found.buildSet
           /\ passed' = found.passed
           /\ log' = found.log
           /\ request' = [request EXCEPT !.relics = RelicsAfterSearch(@, found.passed)]
           /\ pc' = IF found.thrown THEN "fault" ELSE "sort"
    /\ UNCHANGED <<categoryMap, skillMaxLevels, relics, posted, prev, received,
                   answers, app, inbox, run>>

\* solve() after the search: the sort, and return this.validBuilds
SolveSort ==
    /\ pc = "sort"
    /\ validBuilds' \in SortOutcomes(validBuilds)
    /\ pc' = "post"
    /\ UNCHANGED <<request, categoryMap, skillMaxLevels, relics, buildSet,
                   passed, log, posted, prev, received, answers, app, inbox, run>>

DoneMessage(results) == [type |-> "DONE", results |-> results]
ErrorMessage == [type |-> "ERROR", message |-> "TypeError"]

\* a message on its way to the App, with the run that posted it
InFlight(data) == [data |-> data, run |-> run]

\* self.postMessage({ type: 'DONE', results }), and the handler returns
PostDone ==
    /\ pc = "post"
    /\ posted' = Append(posted, DoneMessage(validBuilds))
    /\ inbox' = Append(inbox, InFlight(DoneMessage(validBuilds)))
    /\ pc' = "done"
    /\ UNCHANGED <<request, categoryMap, skillMaxLevels, relics, validBuilds, buildSet,
                   passed, log, prev, received, answers, app, run>>

\* PostError with a catch block that posts nothing
PostErrorSilent ==
    /\ pc = "fault"
    /\ pc' = "done"
    /\ UNCHANGED <<request, categoryMap, skillMaxLevels, relics, validBuilds, buildSet,
                   passed, log, posted, prev, received, answers, app, inbox, run>>

\* catch (error): self.postMessage({ type: 'ERROR', message }), and the handler returns
PostError ==
    /\ pc = "fault"
    /\ posted' = Append(posted, ErrorMessage)
    /\ inbox' = Append(inbox, InFlight(ErrorMessage))
    /\ pc' = "done"
    /\ UNCHANGED <<request, categoryMap, skillMaxLevels, relics, validBuilds, buildSet,
                   passed, log, prev, received, answers, app, run>>

\* the handler has returned: its solver is unreachable, the worker waits
HandlerReturn ==
    /\ pc = "done"
    /\ prev' = [request |-> request, posted |-> posted]
    /\ answers' = answers \cup {[request |-> received, posted |-> posted]}
    /\ pc' = "idle"
    /\ SolverGone
    /\ UNCHANGED <<request, posted, received, app, inbox, run>>

\* workerRef.current.onmessage: the App handles the oldest message in flight
AppOnMessage ==
    /\ inbox # << >>
    /\ LET e == Head(inbox)
       IN  app' = IF e.data.type = "DONE"
                  THEN [app EXCEPT !.results = e.data.results,
                                   !.hasOptimized = TRUE,
                                   !.isOptimizing = FALSE,
                                   !.from = e.run]
                  ELSE [app EXCEPT !.errorMsg = e.data.message,
                                   !.isOptimizing = FALSE,
                                   !.hasOptimized = TRUE]
    /\ inbox' = Tail(inbox)
    /\ UNCHANGED <<pc, request, categoryMap, skillMaxLevels, relics, validBuilds,
                   buildSet, passed, log, posted, prev, received, answers, run>>

\* Terminate that leaves the posted messages to be handled
TerminateKeepsQueue(queue) == queue

\* workerRef.current.terminate(): the worker stops where it is, and the
\* messages it posted that the App has not handled are discarded
Terminate(queue) == << >>

\* startOptimization() with relics in the inventory: the worker of the
\* earlier run is terminated, and a new worker is sent the new request
StartOptimization ==
    /\ run < MaxRuns
    /\ \E next \in AppRequests :
          /\ Len(next.relics) # 0
          /\ request' = next
    /\ received' = request'
    /\ app' = AppOptimizing
    /\ inbox' = Terminate(inbox)
    /\ run' = run + 1
    /\ pc' = "construct"
    /\ posted' = << >>
    /\ prev' = NoPrev
    /\ SolverGone
    /\ UNCHANGED answers

\* one worker, sent one request after another
Next ==
    \/ OnMessage
    \/ Construct
    \/ SolveReduce
    \/ SolveSearch
    \/ SolveSort
    \/ PostDone
    \/ PostError
    \/ HandlerReturn
    \/ AppOnMessage

Spec == Init /\ [][Next]_vars

\* the worker on requests whose skill names are arbitrary strings
NameInit == InitWith(NameInputs \cup FollowUps)

NameSpec == NameInit /\ [][Next]_vars

\* the worker on requests with large inventories
ReduceInit == InitWith(ReduceInputs \cup FollowUps)

ReduceSpec == ReduceInit /\ [][Next]_vars

\* the App: every run has a worker of its own, which gets one request
AppInit == InitWith(AppRequests)

AppNext ==
    \/ StartOptimization
    \/ Construct
    \/ SolveReduce
    \/ SolveSearch
    \/ SolveSort
    \/ PostDone
    \/ PostError
    \/ HandlerReturn
    \/ AppOnMessage

AppSpec == AppInit /\ [][AppNext]_vars

---------------------------------------------------------------------------
(* What the claims speak of, stated from the request alone *)

\* solve() has returned: validBuilds is the list it returns
SolveReturned == pc = "post"

Results == validBuilds

\* the modifiers of the relics of build, as <<relic position, index>> pairs
ModifiersOf(build) ==
    {<<k, j>> \in (1..Len(build)) \X (1..3) :
        j <= Len(SkillsOf(RelicAt(build[k])))}

ModifierAt(build, m) == SkillsOf(RelicAt(build[m[1]]))[m[2]]

RECURSIVE SumLevels(_, _)
SumLevels(build, ms) ==
    IF ms = {} THEN 0
    ELSE LET m == CHOOSE x \in ms : TRUE
         IN  ModifierAt(build, m).level + SumLevels(build, ms \ {m})

\* the sum of the levels of every modifier of build named skill
SkillSum(build, skill) ==
    SumLevels(build, {m \in ModifiersOf(build) : ModifierAt(build, m).name = skill})

\* the sum of the levels of every modifier of build whose name maps to cat
CategorySum(build, cat) ==
    SumLevels(build, {m \in ModifiersOf(build) :
        /\ ModifierAt(build, m).name \in DOMAIN categoryMap
        /\ categoryMap[ModifierAt(build, m).name] = cat})

SkillNamesOf(build) == {ModifierAt(build, m).name : m \in ModifiersOf(build)}

\* the number of relics of build whose type is cat
TypeCount(build, cat) ==
    Cardinality({k \in 1..Len(build) : RelicAt(build[k]).type = cat})

\* the composition of a relic: type, main skill and the bag of its aux skills
Composition(r) ==
    [type |-> r.type,
     main |-> r.main_skill,
     aux |-> [a \in {r.aux_skills[k] : k \in 1..Len(r.aux_skills)} |->
                Cardinality({k \in 1..Len(r.aux_skills) : r.aux_skills[k] = a})]]

\* the bag of the compositions of the relics of build
CompositionBag(build) ==
    [c \in {Composition(RelicAt(build[k])) : k \in 1..Len(build)} |->
        Cardinality({k \in 1..Len(build) : Composition(RelicAt(build[k])) = c})]

\* the position at which the search accepted a build
IndexIn(s, x) == CHOOSE k \in 1..Len(s) : s[k] = x

AcceptIndex(b) == IndexIn(buildSet, BuildFingerprint(b.relics))

\* the sets of BuildSize positions of the inventory of the request that meet
\* every declared minimum and every quota
FeasibleSets(req) ==
    {S \in SUBSET (1..Len(req.relics)) :
        /\ Cardinality(S) = BuildSize
        /\ LET build == [k \in 1..BuildSize |->
                            CHOOSE x \in S : Cardinality({y \in S : y < x}) = k - 1]
               c == req.constraints
           IN  /\ \A cat \in DOMAIN c.targetCategoryLevels :
                     CategorySum(build, cat) >= c.targetCategoryLevels[cat]
               /\ \A skill \in DOMAIN c.targetSkillLevels :
                     SkillSum(build, skill) >= c.targetSkillLevels[skill]
               /\ HasSlots(c) =>
                     \A k \in S : TypeCount(build, req.relics[k].type)
                                    <= SlotLookup(c.allowedSlots, req.relics[k].type)}

---------------------------------------------------------------------------
(* The claims *)

\* C1: every build of the list solve() returns has exactly 6 relics.
C1_SixItems ==
    SolveReturned =>
        \A k \in 1..Len(Results) : Len(Results[k].relics) = 6

C1_Witness ==
    /\ SolveReturned
    /\ Len(Results) >= 2

\* C2: in every build solve() returns, for every category with a declared
\* minimum, the levels of all modifiers of the build that map to the category
\* sum to at least the minimum, and rawCategoryLevels holds that sum.
C2_CategoryMinimums ==
    SolveReturned =>
        \A k \in 1..Len(Results) :
            \A cat \in DOMAIN request.constraints.targetCategoryLevels :
                /\ CategorySum(Results[k].relics, cat)
                      >= request.constraints.targetCategoryLevels[cat]
                /\ GetOrZero(Results[k].rawCategoryLevels, cat)
                      = CategorySum(Results[k].relics, cat)

\* a build was returned under a positive category minimum that another
\* complete build failed
C2_Witness ==
    /\ SolveReturned
    /\ Len(Results) >= 1
    /\ \E cat \in DOMAIN request.constraints.targetCategoryLevels :
          /\ request.constraints.targetCategoryLevels[cat] > 0
          /\ \E S \in SUBSET (1..Len(request.relics)) :
                /\ Cardinality(S) = BuildSize
                /\ S \notin FeasibleSets(request)

\* C3: in every build solve() returns, for every skill with a declared
\* minimum, the levels of all modifiers of that name sum to at least the
\* minimum, and rawSkillLevels holds that sum.
C3_SkillMinimums ==
    SolveReturned =>
        \A k \in 1..Len(Results) :
            \A skill \in DOMAIN request.constraints.targetSkillLevels :
                /\ SkillSum(Results[k].relics, skill)
                      >= request.constraints.targetSkillLevels[skill]
                /\ GetOrZero(Results[k].rawSkillLevels, skill)
                      = SkillSum(Results[k].relics, skill)

C3_Witness ==
    /\ SolveReturned
    /\ Len(Results) >= 1
    /\ \E skill \in DOMAIN request.constraints.targetSkillLevels :
          /\ request.constraints.targetSkillLevels[skill] > 0
          /\ \E S \in SUBSET (1..Len(request.relics)) :
                /\ Cardinality(S) = BuildSize
                /\ S \notin FeasibleSets(request)

\* C4: in every build solve() returns, for every category that has a quota,
\* the number of relics of that category is at most the quota.
C4_Quotas ==
    (SolveReturned /\ HasSlots(request.constraints)) =>
        \A k \in 1..Len(Results) :
            \A e \in 1..Len(request.constraints.allowedSlots) :
                TypeCount(Results[k].relics, request.constraints.allowedSlots[e][1])
                    <= request.constraints.allowedSlots[e][2]

\* builds were returned under quotas that some 6 relics of the inventory exceed
C4_Witness ==
    /\ SolveReturned
    /\ HasSlots(request.constraints)
    /\ Len(Results) >= 2
    /\ \E e \in 1..Len(request.constraints.allowedSlots) :
          Cardinality({k \in 1..Len(request.relics) :
                request.relics[k].type = request.constraints.allowedSlots[e][1]})
            > request.constraints.allowedSlots[e][2]

\* C5: no two builds of the list solve() returns have the same fingerprint,
\* and of the complete builds that passed the thresholds and have the same
\* composition (they differ by relics of identical type, main skill and
\* aux skills) exactly one is in the list.
C5_OnePerFingerprint ==
    SolveReturned =>
        LET fingerprints == {BuildFingerprint(Results[k].relics) : k \in 1..Len(Results)}
            returned == {CompositionBag(Results[k].relics) : k \in 1..Len(Results)}
        IN  /\ Cardinality(fingerprints) = Len(Results)
            /\ Cardinality(returned) = Len(Results)
            /\ {CompositionBag(b) : b \in passed} = returned

\* two builds of the same composition passed the thresholds, one was returned
C5_Witness ==
    /\ SolveReturned
    /\ \E x \in passed : \E y \in passed :
          /\ x # y
          /\ CompositionBag(x) = CompositionBag(y)
          /\ \E k \in 1..Len(Results) : Results[k].relics = x
          /\ \A k \in 1..Len(Results) : Results[k].relics # y

\* C6: validBuilds never holds more than 2000 builds, neither when an
\* activation of backtrack is entered nor when solve() returns, and no
\* message carries more.
C6_AtMostMaxBuilds ==
    /\ Len(validBuilds) <= 2000
    /\ \A k \in 1..Len(log) : log[k].accepted <= 2000
    /\ \A k \in 1..Len(posted) :
          posted[k].type = "DONE" => Len(posted[k].results) <= 2000

\* the search was cut off by the budget and solve() returned 2000 builds
C6_Witness ==
    /\ SolveReturned
    /\ Len(Results) = 2000
    /\ \E k \in 1..Len(log) : log[k].accepted = 2000

\* C7: in every build solve() returns, effectiveSkillLevels is defined for
\* exactly the skills occurring in the build and holds for each the smaller
\* of its raw sum and its maximum level, the maximum level being 6 for a
\* skill neither the taxonomy nor the overrides name; so it never exceeds
\* the raw sum.
C7_EffectiveLevels ==
    SolveReturned =>
        \A k \in 1..Len(Results) :
            LET b == Results[k]
            IN  /\ DOMAIN b.effectiveSkillLevels = SkillNamesOf(b.relics)
                /\ \A s \in SkillNamesOf(b.relics) :
                      /\ b.rawSkillLevels[s] = SkillSum(b.relics, s)
                      /\ b.effectiveSkillLevels[s] =
                            (IF s \in DOMAIN skillMaxLevels
                             THEN Min(SkillSum(b.relics, s), skillMaxLevels[s])
                             ELSE Min(SkillSum(b.relics, s), 6))
                      /\ b.effectiveSkillLevels[s] <= b.rawSkillLevels[s]

\* a returned build has a skill capped at its declared maximum, a skill
\* without a declared maximum capped at 6, and a skill below its maximum
C7_Witness ==
    /\ SolveReturned
    /\ \E k \in 1..Len(Results) :
          LET b == Results[k]
          IN  /\ \E s \in DOMAIN b.rawSkillLevels :
                    /\ s \in DOMAIN skillMaxLevels
                    /\ skillMaxLevels[s] # 6
                    /\ b.rawSkillLevels[s] > skillMaxLevels[s]
              /\ \E s \in DOMAIN b.rawSkillLevels :
                    /\ s \notin DOMAIN skillMaxLevels
                    /\ b.rawSkillLevels[s] > 6
              /\ \E s \in DOMAIN b.rawSkillLevels :
                    b.effectiveSkillLevels[s] = b.rawSkillLevels[s]

C9_Ranked ==
    SolveReturned =>
        \A k \in 1..(Len(Results) - 1) :
            LET a == Results[k]
                b == Results[k + 1]
                rawA == SumValues(a.rawSkillLevels)
                rawB == SumValues(b.rawSkillLevels)
                effA == SumValues(a.effectiveSkillLevels)
                effB == SumValues(b.effectiveSkillLevels)
            IN  \/ rawA > rawB
                \/ rawA = rawB /\ effA > effB
                \/ rawA = rawB /\ effA = effB /\ AcceptIndex(a) < AcceptIndex(b)

\* the returned list has neighbours ordered by raw total, by effective
\* total and by acceptance, and the sort moved a build accepted later forward
C9_Witness ==
    /\ SolveReturned
    /\ \E k \in 1..(Len(Results) - 1) :
          SumValues(Results[k].rawSkillLevels) > SumValues(Results[k + 1].rawSkillLevels)
    /\ \E k \in 1..(Len(Results) - 1) :
          /\ SumValues(Results[k].rawSkillLevels) = SumValues(Results[k + 1].rawSkillLevels)
          /\ SumValues(Results[k].effectiveSkillLevels)
                > SumValues(Results[k + 1].effectiveSkillLevels)
    /\ \E k \in 1..(Len(Results) - 1) :
          CompareBuilds(Results[k], Results[k + 1]) = 0
    /\ \E k \in 1..(Len(Results) - 1) :
          AcceptIndex(Results[k]) > AcceptIndex(Results[k + 1])

\* C10: when no 6 relics of the inventory meet the minimums and the quotas,
\* as with an empty inventory, the worker posts one DONE message with an
\* empty list and no ERROR message.
C10_NothingFeasible ==
    (pc = "done" /\ FeasibleSets(request) = {}) =>
        posted = <<[type |-> "DONE", results |-> << >>]>>

\* nothing was feasible among 6 or more relics, one of them without a main
\* skill, and complete builds were evaluated
C10_Witness ==
    /\ pc = "done"
    /\ Len(request.relics) > BuildSize
    /\ \E k \in 1..Len(request.relics) : ~IsSkill(request.relics[k].main_skill)
    /\ request.constraints.targetSkillLevels # EmptyMap
    /\ FeasibleSets(request) = {}
    /\ posted = <<[type |-> "DONE", results |-> << >>]>>

\* every declared minimum of c is 0
AllThresholdsZero(c) ==
    /\ \A cat \in DOMAIN c.targetCategoryLevels : c.targetCategoryLevels[cat] = 0
    /\ \A skill \in DOMAIN c.targetSkillLevels : c.targetSkillLevels[skill] = 0

\* the quotas of the request, if it has any, leave room for all its relics
QuotasPermitAll(req) ==
    HasSlots(req.constraints) =>
        \A k \in 1..Len(req.relics) :
            Cardinality({j \in 1..Len(req.relics) : req.relics[j].type = req.relics[k].type})
                <= SlotLookup(req.constraints.allowedSlots, req.relics[k].type)

\* C11: for an inventory of exactly 6 relics, with every declared minimum 0
\* and quotas that permit all 6, the answer is DONE with exactly one build,
\* and that build holds each of the 6 relics of the inventory.
C11_SixOfSix ==
    (/\ pc = "done"
     /\ Len(request.relics) = BuildSize
     /\ AllThresholdsZero(request.constraints)
     /\ QuotasPermitAll(request)) =>
        /\ Len(posted) = 1
        /\ posted[1].type = "DONE"
        /\ Len(posted[1].results) = 1
        /\ Len(posted[1].results[1].relics) = BuildSize
        /\ {posted[1].results[1].relics[k] : k \in 1..BuildSize} = 1..BuildSize

\* six relics were answered under a declared minimum of 0 for a category
\* none of their skills maps to, and six under quotas they fill exactly
C11_Witness ==
    /\ pc = "done"
    /\ Len(request.relics) = BuildSize
    /\ AllThresholdsZero(request.constraints)
    /\ QuotasPermitAll(request)
    /\ Len(posted) = 1
    /\ posted[1].type = "DONE"
    /\ Len(posted[1].results) = 1
    /\ \/ \E cat \in DOMAIN request.constraints.targetCategoryLevels :
              GetOrZero(posted[1].results[1].rawCategoryLevels, cat) = 0
       \/ HasSlots(request.constraints)

\* C12: when a declared category minimum exceeds 6 * 9, the answer is DONE
\* with an empty list, whatever the inventory.
C12_OverMaximum ==
    (/\ pc = "done"
     /\ \E cat \in DOMAIN request.constraints.targetCategoryLevels :
           request.constraints.targetCategoryLevels[cat]
               > BuildSize * MAX_POINTS_PER_RELIC) =>
        /\ validBuilds = << >>
        /\ posted = <<DoneMessage(<< >>)>>

\* the empty list was the answer under a minimum above 54 to an inventory
\* of which 6 relics reach the minimum
C12_Witness ==
    /\ pc = "done"
    /\ \E cat \in DOMAIN request.constraints.targetCategoryLevels :
          request.constraints.targetCategoryLevels[cat]
              > BuildSize * MAX_POINTS_PER_RELIC
    /\ FeasibleSets(request) # {}
    /\ posted = <<DoneMessage(<< >>)>>

\* the skills with a declared minimum that no relic of the inventory carries
AbsentTargets(req) ==
    {skill \in DOMAIN req.constraints.targetSkillLevels :
        \A k \in 1..Len(req.relics) :
            \A j \in 1..Len(SkillsOf(req.relics[k])) :
                SkillsOf(req.relics[k])[j].name # skill}

\* C13 as stated: when a minimum is declared for a skill that no relic of
\* the inventory carries, solve() returns an empty list.
C13_AbsentSkill ==
    (SolveReturned /\ AbsentTargets(request) # {}) => Results = << >>

\* C13, amended: when a minimum greater than 0 is declared for a skill that
\* no relic of the inventory carries, solve() does not throw and returns an
\* empty list.
C13_AbsentSkillPositive ==
    (/\ pc \in {"sort", "fault", "post"}
     /\ \E skill \in AbsentTargets(request) :
           request.constraints.targetSkillLevels[skill] > 0) =>
        /\ pc # "fault"
        /\ validBuilds = << >>

\* complete builds were evaluated under a positive minimum for a skill no
\* relic carries, and solve() returned the empty list
C13_Witness ==
    /\ SolveReturned
    /\ \E skill \in AbsentTargets(request) :
          request.constraints.targetSkillLevels[skill] > 0
    /\ \E k \in 1..Len(log) : log[k].did = "evaluate"
    /\ Results = << >>

\* the sum of the levels of every modifier of build whose name is in the map
MappedTotal(build) ==
    SumLevels(build, {m \in ModifiersOf(build) :
        ModifierAt(build, m).name \in DOMAIN categoryMap})

\* C14: a modifier whose name is in neither the taxonomy nor the overrides
\* does not make solve() throw; in every build solve() returns its levels are
\* in the raw sum of its name, in the sum of no category, and its effective
\* level is the raw sum capped at 6.
C14_UnmappedNames ==
    /\ pc = "fault" =>
          \E k \in 1..Len(request.relics) : ~IsSkill(request.relics[k].main_skill)
    /\ SolveReturned =>
          \A k \in 1..Len(Results) :
              LET b == Results[k]
              IN  /\ SumValues(b.rawCategoryLevels) = MappedTotal(b.relics)
                  /\ \A s \in SkillNamesOf(b.relics) :
                        (s \notin DOMAIN categoryMap /\ s \notin DOMAIN skillMaxLevels) =>
                            /\ b.rawSkillLevels[s] = SkillSum(b.relics, s)
                            /\ b.effectiveSkillLevels[s] = Min(SkillSum(b.relics, s), 6)

\* a returned build has mapped skills and an unmapped one whose raw sum is
\* above 6
C14_Witness ==
    /\ SolveReturned
    /\ \E k \in 1..Len(Results) :
          LET b == Results[k]
          IN  /\ MappedTotal(b.relics) > 0
              /\ \E s \in SkillNamesOf(b.relics) :
                    /\ s \notin DOMAIN categoryMap
                    /\ s \notin DOMAIN skillMaxLevels
                    /\ b.rawSkillLevels[s] > 6
                    /\ b.effectiveSkillLevels[s] = 6

\* evaluateBuild threw in the search of the request being handled
SearchThrew == \E b \in passed : FingerprintThrows(b)

\* C15: the worker posts nothing while it handles a request and exactly one
\* message when it is done: DONE with the list solve() returned, or ERROR
\* when the solve threw; and what is posted for a request is the same
\* whether the request before it ended in DONE or in ERROR.
C15_OneCompletion ==
    /\ pc \in {"construct", "solve", "search", "sort", "post", "fault"} =>
          posted = << >>
    /\ pc = "done" =>
          /\ Len(posted) = 1
          /\ posted[1] = IF SearchThrew THEN ErrorMessage ELSE DoneMessage(validBuilds)
          /\ \A a \in answers : a.request = received => a.posted = posted
    /\ \A a \in answers : \A b \in answers : a.request = b.request => a.posted = b.posted

\* a request that was answered with DONE before is answered again right
\* after a request that ended in ERROR
C15_Witness ==
    /\ pc = "done"
    /\ "posted" \in DOMAIN prev
    /\ prev.posted = <<ErrorMessage>>
    /\ prev.request # received
    /\ Len(posted) = 1
    /\ posted[1].type = "DONE"
    /\ posted[1].results # << >>
    /\ \E a \in answers : a.request = received

\* C16: the results the App holds were accepted in the current run: solve()
\* starts its search from empty accumulators and returns builds of that
\* search only, no message of an earlier run is in flight once a new run has
\* started, and results the App shows are those the current worker posted.
C16_OwnRunOnly ==
    /\ pc = "search" => (validBuilds = << >> /\ buildSet = << >>)
    /\ pc \in {"sort", "post", "done"} =>
          /\ log # << >> /\ log[1].accepted = 0
          /\ \A k \in 1..Len(validBuilds) : validBuilds[k].relics \in passed
    /\ \A k \in 1..Len(inbox) : inbox[k].run = run
    /\ app.results # << >> =>
          /\ app.from = run
          /\ posted = <<DoneMessage(app.results)>>

\* the App holds the results of its second run; the worker of the first run
\* was terminated before its handler returned
C16_Witness ==
    /\ run = 2
    /\ answers = {}
    /\ app.results # << >>
    /\ app.from = 2

RECURSIVE Binomial(_, _)
Binomial(n, k) ==
    IF k = 0 THEN 1
    ELSE IF n = 0 THEN 0
    ELSE Binomial(n - 1, k - 1) + Binomial(n - 1, k)

RECURSIVE PathsUpTo(_, _)
\* the number of strictly increasing index sequences of length at most d
PathsUpTo(n, d) == IF d = 0 THEN 1 ELSE Binomial(n, d) + PathsUpTo(n, d - 1)

\* C18: the search is finite: every activation of backtrack has depth at
\* most 6, the indices chosen on the way to it strictly increase and are
\* indices of candidates, the cursor it gets is greater than the index
\* chosen last, no two activations have the same indices, and so there are
\* no more activations than index sequences of length at most 6.
C18_SearchTerminates ==
    /\ \A k \in 1..Len(log) :
          LET a == log[k]
          IN  /\ a.depth <= BuildSize
              /\ a.depth = Len(a.path)
              /\ \A j \in 1..Len(a.path) : a.path[j] \in 0..(Len(relics) - 1)
              /\ \A j \in 1..(Len(a.path) - 1) : a.path[j] < a.path[j + 1]
              /\ a.path # << >> => a.startIndex > a.path[Len(a.path)]
    /\ Cardinality({log[k].path : k \in 1..Len(log)}) = Len(log)
    /\ Len(log) <= PathsUpTo(Len(relics), BuildSize)

\* a search that visited every index sequence of length at most 6 over more
\* than 6 candidates
C18_Witness ==
    /\ SolveReturned
    /\ Len(relics) > BuildSize
    /\ Len(log) = PathsUpTo(Len(relics), BuildSize)

\* the feasible sets of 6 relics that are all among the candidates
FeasibleCandidateSets ==
    {S \in FeasibleSets(request) : \A x \in S : \E k \in 1..Len(relics) : relics[k] = x}

\* the build of the relics of S, in the order of their positions
BuildOf(S) ==
    [k \in 1..Cardinality(S) |-> CHOOSE x \in S : Cardinality({y \in S : y < x}) = k - 1]

\* C19 as stated: unless the cap of 2000 was reached, every set of 6
\* candidates that meets every minimum and every quota has its composition
\* in the list solve() returns.
C19_NoBuildLost ==
    (SolveReturned /\ Len(Results) < maxBuilds) =>
        \A S \in FeasibleCandidateSets :
            \E k \in 1..Len(Results) :
                CompositionBag(Results[k].relics) = CompositionBag(BuildOf(S))

BuildOnPath(path) == [j \in 1..Len(path) |-> relics[path[j] + 1]]

\* the activations that passed their build to evaluateBuild
Evaluated == {k \in 1..Len(log) : log[k].did = "evaluate"}

\* C21: the partial build of every activation is made of the candidates at
\* strictly increasing indices, so it holds no relic twice; no two evaluated
\* activations chose the same set of indices; and every build the
\* evaluator let through is the build of one evaluated activation.
C21_EachCombinationOnce ==
    pc \in {"sort", "fault", "post"} =>
        /\ \A k \in 1..Len(log) :
              LET path == log[k].path
              IN  /\ \A i \in 1..Len(path) : \A j \in 1..Len(path) :
                        i < j => path[i] < path[j]
                  /\ Cardinality({BuildOnPath(path)[j] : j \in 1..Len(path)}) = Len(path)
        /\ Cardinality({{log[k].path[j] : j \in 1..BuildSize} : k \in Evaluated})
              = Cardinality(Evaluated)
        /\ \A b \in passed : \E k \in Evaluated : BuildOnPath(log[k].path) = b

\* a search over more than 6 candidates that evaluated every set of 6 of
\* them, and let builds through
C21_Witness ==
    /\ SolveReturned
    /\ Len(relics) > BuildSize
    /\ Cardinality(Evaluated) = Binomial(Len(relics), BuildSize)
    /\ passed # {}

\* the complete builds that passed the thresholds and have a fingerprint
Fingerprinted == {b \in passed : ~FingerprintThrows(b)}

\* C22 as stated: two builds that passed the thresholds have the same
\* fingerprint exactly if they have the same bag of compositions, and every
\* composition that passed the thresholds is in the list solve() returns
\* unless the cap was reached.
C22_FingerprintIsComposition ==
    /\ \A a \in Fingerprinted : \A b \in Fingerprinted :
          (BuildFingerprint(a) = BuildFingerprint(b))
              <=> (CompositionBag(a) = CompositionBag(b))
    /\ (SolveReturned /\ Len(Results) < maxBuilds) =>
          \A a \in Fingerprinted : \E k \in 1..Len(Results) :
              CompositionBag(Results[k].relics) = CompositionBag(a)

\* the entries the taxonomy gives rise to, each with the place <<category,
\* 1 for main_skills and 2 for aux_skills, index, element>> where the
\* constructor comes to it: a main skill with the maximum 6, an aux skill
\* without placeholder as it is, and a templated aux skill once for every
\* element
TaxonomyEntries(info) ==
    IF "RELIC_TYPES" \notin DOMAIN info THEN {}
    ELSE LET types == info.RELIC_TYPES
             mainOf(c) == IF "main_skills" \in DOMAIN types[c][2]
                          THEN types[c][2].main_skills ELSE << >>
             auxOf(c) == IF "aux_skills" \in DOMAIN types[c][2]
                         THEN types[c][2].aux_skills ELSE << >>
             elements == IF "ELEMENTS" \in DOMAIN info THEN info.ELEMENTS ELSE << >>
             templated(t) == Includes(t, ElementPlaceholder)
         IN  UNION {
               {[at |-> <<c, 1, j, 0>>, name |-> mainOf(c)[j],
                 cat |-> types[c][1], max |-> 6] : j \in 1..Len(mainOf(c))}
               \cup
               {[at |-> <<c, 2, j, 0>>, name |-> auxOf(c)[j][1],
                 cat |-> types[c][1], max |-> auxOf(c)[j][2]] :
                    j \in {i \in 1..Len(auxOf(c)) : ~templated(auxOf(c)[i][1])}}
               \cup
               UNION {
                 {[at |-> <<c, 2, j, e>>,
                   name |-> ReplaceFirst(auxOf(c)[j][1], ElementPlaceholder, elements[e]),
                   cat |-> types[c][1], max |-> auxOf(c)[j][2]] :
                      e \in 1..Len(elements)} :
                    j \in {i \in 1..Len(auxOf(c)) : templated(auxOf(c)[i][1])}}
               : c \in 1..Len(types)}

\* place p comes before place q
PlaceBefore(p, q) ==
    \E k \in 1..4 : p[k] < q[k] /\ \A i \in 1..(k - 1) : p[i] = q[i]

\* what the maps hold for name n: the entry of the override table if it has
\* one, otherwise the entry of the taxonomy for n that comes last
IndexEntry(n, skillsData, info) ==
    IF \E k \in 1..Len(skillsData) : skillsData[k][1] = n
    THEN LET def == skillsData[CHOOSE k \in 1..Len(skillsData) : skillsData[k][1] = n][2]
         IN  [cat |-> def.type, max |-> def.maxlevel]
    ELSE LET mine == {e \in TaxonomyEntries(info) : e.name = n}
             last == CHOOSE e \in mine : \A f \in mine : f = e \/ PlaceBefore(f.at, e.at)
         IN  [cat |-> last.cat, max |-> last.max]

\* C23: the two maps of the solver have exactly the names of the taxonomy
\* expansion and of the override table, and for every name the category and
\* the maximum of the override table if it has the name, and of the
\* taxonomy entry otherwise: 6 for a main skill, the template's maximum for
\* every element of a templated aux skill, its own for any other aux skill.
C23_IndexIsExpansion ==
    pc \in {"solve", "search", "sort", "post", "fault"} =>
        LET names == {e.name : e \in TaxonomyEntries(request.relicInfo)}
                     \cup {request.skillsData[k][1] : k \in 1..Len(request.skillsData)}
        IN  /\ DOMAIN categoryMap = names
            /\ DOMAIN skillMaxLevels = names
            /\ \A n \in names :
                  LET entry == IndexEntry(n, request.skillsData, request.relicInfo)
                  IN  categoryMap[n] = entry.cat /\ skillMaxLevels[n] = entry.max

\* a solver built from a taxonomy with a main skill the override table
\* changes, a main skill it leaves at 6, a templated aux skill expanded for
\* two elements, and a name the override table alone has
C23_Witness ==
    /\ pc = "solve"
    /\ {HP, HL, FiR, IcR, DF, AT} \subseteq DOMAIN categoryMap
    /\ skillMaxLevels[HP] = 5
    /\ skillMaxLevels[HL] = 6
    /\ categoryMap[FiR] = Bulwark /\ skillMaxLevels[FiR] = 2
    /\ categoryMap[IcR] = Bulwark /\ skillMaxLevels[IcR] = 2
    /\ skillMaxLevels[DF] = 3
    /\ categoryMap[AT] = Vanguard

\* the orders in which n entries can be written
Perms(n) == {f \in [1..n -> 1..n] : \A i \in 1..n : \A j \in 1..n : f[i] = f[j] => i = j}

Reordered(s, f) == [k \in 1..Len(s) |-> s[f[k]]]

\* the same category data with its main_skills and its aux_skills in any order
CategoryReorderings(catData) ==
    {[main_skills |-> Reordered(catData.main_skills, f),
      aux_skills |-> Reordered(catData.aux_skills, g)] :
        f \in Perms(Len(catData.main_skills)), g \in Perms(Len(catData.aux_skills))}

\* the taxonomies that have the categories of info, the entries of every
\* category and the elements, in any order
Reorderings(info) ==
    IF "RELIC_TYPES" \notin DOMAIN info THEN {info}
    ELSE LET types == info.RELIC_TYPES
             n == Len(types)
             entries == UNION {{<<types[k][1], c>> : c \in CategoryReorderings(types[k][2])} :
                                  k \in 1..n}
             orders == {t \in [1..n -> entries] :
                           \E f \in Perms(n) : \A k \in 1..n :
                               /\ t[k][1] = types[f[k]][1]
                               /\ t[k][2] \in CategoryReorderings(types[f[k]][2])}
         IN  {[RELIC_TYPES |-> t, ELEMENTS |-> Reordered(info.ELEMENTS, e)] :
                 t \in orders, e \in Perms(Len(info.ELEMENTS))}

\* the maps of the solver are those of the constructor on every reordering
\* of the taxonomy
SameIndexInAnyOrder ==
    \A t \in Reorderings(request.relicInfo) :
        BuildIndex(request.skillsData, t) = [cat |-> categoryMap, max |-> skillMaxLevels]

\* no name comes out of two entries of the taxonomy with different
\* categories or different maxima
NoConflictingEntries(info) ==
    \A e \in TaxonomyEntries(info) : \A f \in TaxonomyEntries(info) :
        e.name = f.name => (e.cat = f.cat /\ e.max = f.max)

\* C24 as stated: the maps are the same for every order of the categories
\* and of their entries.
C24_AnyOrder ==
    pc \in {"solve", "search", "sort", "post", "fault"} => SameIndexInAnyOrder

\* C24: the maps are the same for every order of the categories, of their
\* entries and of the elements, if no name comes out of two entries of the
\* taxonomy with different categories or different maxima.
C24_AnyOrderWithoutConflict ==
    (pc \in {"solve", "search", "sort", "post", "fault"}
        /\ NoConflictingEntries(request.relicInfo)) => SameIndexInAnyOrder

\* a solver built from a taxonomy without conflicting entries that has two
\* categories, two aux skills in a category and two elements
C24_Witness ==
    /\ pc = "solve"
    /\ "RELIC_TYPES" \in DOMAIN request.relicInfo
    /\ NoConflictingEntries(request.relicInfo)
    /\ Len(request.relicInfo.RELIC_TYPES) = 2
    /\ Len(request.relicInfo.RELIC_TYPES[1][2].aux_skills) = 2
    /\ Cardinality(Reorderings(request.relicInfo)) = 8
    /\ Cardinality(DOMAIN categoryMap) > 4

\* the modifiers of relic k whose category has a minimum in c, and those
\* whose own name has one
InTargetCategory(k, c) ==
    {m \in ModifiersOf(<<k>>) :
        /\ ModifierAt(<<k>>, m).name \in DOMAIN categoryMap
        /\ categoryMap[ModifierAt(<<k>>, m).name] \in DOMAIN c.targetCategoryLevels}

InTargetSkills(k, c) ==
    {m \in ModifiersOf(<<k>>) : ModifierAt(<<k>>, m).name \in DOMAIN c.targetSkillLevels}

\* the same, for minimums other than 0
InNonZeroTargetCategory(k, c) ==
    {m \in InTargetCategory(k, c) :
        c.targetCategoryLevels[categoryMap[ModifierAt(<<k>>, m).name]] # 0}

InNonZeroTargetSkills(k, c) ==
    {m \in InTargetSkills(k, c) : c.targetSkillLevels[ModifierAt(<<k>>, m).name] # 0}

\* C25 as stated: the score of every relic of the inventory is 2 times the
\* levels of its modifiers whose category has a declared minimum plus 10
\* times the levels of its modifiers whose name has a declared minimum.
C25_ScoreOfDeclared ==
    pc \in {"search", "sort", "post", "fault"} =>
        \A k \in 1..Len(request.relics) :
            Score(RelicAt(k), request.constraints, categoryMap)
                = 2 * SumLevels(<<k>>, InTargetCategory(k, request.constraints))
                    + 10 * SumLevels(<<k>>, InTargetSkills(k, request.constraints))

\* C25: the score of every relic of the inventory is 2 times the levels of
\* its modifiers whose category has a declared minimum other than 0 plus 10
\* times the levels of its modifiers whose name has a declared minimum
\* other than 0.
C25_ScoreOfNonZero ==
    pc \in {"search", "sort", "post", "fault"} =>
        \A k \in 1..Len(request.relics) :
            Score(RelicAt(k), request.constraints, categoryMap)
                = 2 * SumLevels(<<k>>, InNonZeroTargetCategory(k, request.constraints))
                    + 10 * SumLevels(<<k>>, InNonZeroTargetSkills(k, request.constraints))

\* the candidates were reduced with a relic that scores for a category
\* and for names, and with one that scores nothing
C25_Witness ==
    /\ pc = "search"
    /\ \E k \in 1..Len(request.relics) :
          /\ InNonZeroTargetCategory(k, request.constraints) # {}
          /\ InNonZeroTargetSkills(k, request.constraints) # {}
          /\ InNonZeroTargetCategory(k, request.constraints)
                # InNonZeroTargetSkills(k, request.constraints)
          /\ Score(RelicAt(k), request.constraints, categoryMap) > 0
    /\ \E k \in 1..Len(request.relics) :
          Score(RelicAt(k), request.constraints, categoryMap) = 0

\* relic j of the inventory is ahead of relic k: its score is higher, or
\* the same and it comes first in the inventory
Ahead(j, k) ==
    LET sj == Score(RelicAt(j), request.constraints, categoryMap)
        sk == Score(RelicAt(k), request.constraints, categoryMap)
    IN  sj > sk \/ (sj = sk /\ j < k)

\* the categories the reduction keeps relics for
RequiredCategories ==
    IF HasSlots(request.constraints)
    THEN {request.constraints.allowedSlots[k][1] :
             k \in 1..Len(request.constraints.allowedSlots)}
    ELSE {Bulwark, Vanguard, Support, Sentinel}

\* the relics of the inventory of type cat
OfType(cat) == {k \in 1..Len(request.relics) : RelicAt(k).type = cat}

\* the relics of type cat that fewer than 15 relics of that type are ahead of
TopOfCategory(cat) ==
    {k \in OfType(cat) : Cardinality({j \in OfType(cat) : Ahead(j, k)}) < 15}

\* the relics in the candidate array
CandidateSet == {relics[k] : k \in 1..Len(relics)}

Reduced == pc \in {"search", "sort", "post", "fault"}

\* C26: for every category of the quota map, or of the four known ones
\* without a quota map, the candidates include the 15 relics of that
\* category that are ahead of the others by score and then by inventory
\* order, all of them if there are no more than 15; and no relic is a
\* candidate twice.
C26_TopOfEachCategory ==
    Reduced =>
        /\ \A cat \in RequiredCategories : TopOfCategory(cat) \subseteq CandidateSet
        /\ Cardinality(CandidateSet) = Len(relics)

\* a reduction of an inventory with more than 15 relics of a required
\* category, some with equal scores, that left relics of the category out
C26_Witness ==
    /\ pc = "search"
    /\ \E cat \in RequiredCategories :
          /\ Cardinality(OfType(cat)) > 15
          /\ Cardinality(TopOfCategory(cat)) = 15
          /\ OfType(cat) \ CandidateSet # {}
          /\ \E j \in TopOfCategory(cat) : \E k \in OfType(cat) \ CandidateSet :
                Score(RelicAt(j), request.constraints, categoryMap)
                    = Score(RelicAt(k), request.constraints, categoryMap)

\* the relics the per-category step keeps
TopUnion == UNION {TopOfCategory(cat) : cat \in RequiredCategories}

\* min(50, |inventory|)
FloorOf(n) == IF n < 50 THEN n ELSE 50

\* C27: the candidate array has at least min(50, |inventory|) relics; when
\* the per-category step keeps fewer than 50 it has exactly that many: the
\* kept ones first, then relics that were not kept, in descending order of
\* score, and no relic left out is ahead of one that was added.
C27_PaddedToFloor ==
    Reduced =>
        /\ Len(relics) >= FloorOf(Len(request.relics))
        /\ Cardinality(TopUnion) < 50 =>
              LET u == Cardinality(TopUnion)
              IN  /\ Len(relics) = FloorOf(Len(request.relics))
                  /\ {relics[k] : k \in 1..u} = TopUnion
                  /\ \A k \in (u + 1)..(Len(relics) - 1) : Ahead(relics[k], relics[k + 1])
                  /\ \A k \in (u + 1)..Len(relics) :
                        \A j \in (1..Len(request.relics)) \ CandidateSet :
                            Ahead(relics[k], j)

\* a reduction of an inventory of more than 50 relics that kept fewer than
\* 50 for the categories and added relics up to 50, leaving some out
C27_Witness ==
    /\ pc = "search"
    /\ Len(request.relics) > 50
    /\ Cardinality(TopUnion) < 50
    /\ Cardinality(TopUnion) > 0
    /\ Len(relics) = 50

\* the number of candidates of type cat
CandidatesOfType(cat) == Cardinality(OfType(cat) \cap CandidateSet)

QuotaOrZero(cat) ==
    LET slots == request.constraints.allowedSlots
        entries == {e \in 1..Len(slots) : slots[e][1] = cat}
    IN  IF entries = {} THEN 0 ELSE slots[CHOOSE e \in entries : TRUE][2]

\* the sum of the quotas of the quota map
QuotaSum ==
    LET slots == request.constraints.allowedSlots
    IN  Cardinality(UNION {{e} \X (1..slots[e][2]) : e \in 1..Len(slots)})

\* the index paths of the activations of the search
Paths == {log[k].path : k \in 1..Len(log)}

\* C29: under a quota map, the loop of an activation descends into a
\* candidate exactly when the partial build has fewer relics of the
\* candidate's category than the quota of that category, taken as 0 for a
\* category without an entry; so every relic of a returned build is of a
\* category with a positive quota, and the result is empty when the quotas
\* sum to less than 6. Without a quota map the loop descends into every
\* candidate from its start index on.
C29_AbsentCategoryIsZero ==
    /\ pc \in {"sort", "post"} =>
          \A k \in 1..Len(log) :
              log[k].did = "loop" =>
                  \A i \in log[k].startIndex..(Len(relics) - 1) :
                      (Append(log[k].path, i) \in Paths)
                          <=> \/ ~HasSlots(request.constraints)
                              \/ TypeCount(BuildOnPath(log[k].path), RelicAt(relics[i + 1]).type)
                                    < QuotaOrZero(RelicAt(relics[i + 1]).type)
    /\ (SolveReturned /\ HasSlots(request.constraints)) =>
          /\ \A k \in 1..Len(Results) :
                \A j \in 1..Len(Results[k].relics) :
                    QuotaOrZero(RelicAt(Results[k].relics[j]).type) > 0
          /\ QuotaSum < 6 => Results = << >>

\* builds were returned under a quota map from candidates that include a
\* relic of a category without an entry, which the loop passed over at the
\* top of the search
C29_Witness ==
    /\ SolveReturned
    /\ HasSlots(request.constraints)
    /\ Len(Results) >= 1
    /\ \E i \in 0..(Len(relics) - 1) :
          /\ \A e \in 1..Len(request.constraints.allowedSlots) :
                request.constraints.allowedSlots[e][1] # RelicAt(relics[i + 1]).type
          /\ <<i>> \notin Paths
          /\ \E k \in 1..Len(log) : log[k].path = << >> /\ log[k].did = "loop"

---------------------------------------------------------------------------
(* The App with its character selection: selectedDoll, the Back button and
   the debounced effect *)

\* the characters of dollsData in the model
Dolls == {"Alva", "Bera", "Cato"}

\* selectedDoll === null
NoDoll == "null"

\* dollsData[doll].allowed_slots
AllowedSlotsOf(doll) ==
    IF doll = "Alva" THEN << <<Bulwark, 3>>, <<Support, 3>> >>
    ELSE IF doll = "Bera" THEN << <<Support, 4>>, <<Bulwark, 2>> >>
    ELSE << <<Vanguard, 2>>, <<Bulwark, 2>>, <<Support, 1>>, <<Sentinel, 1>> >>

\* the inventories of the App in the model: the second has a relic without
\* main_skill
DollInventories == {Inventory(PoolA, 7), Inventory(PoolB, 7)}

\* the message startOptimization posts for doll: the inventory, the
\* constraints of the character with its allowed_slots, and the two tables
DollRequest(doll, inv) ==
    MakeRequest(inv,
                WithSlots(Targets(EmptyMap, EmptyMap), AllowedSlotsOf(doll)),
                [skillsData |-> OverridesA, relicInfo |-> TaxonomyA])

\* the state of the App when startOptimization has gone ahead for doll;
\* timer is the pending timeout of the debounced effect, and startedFor
\* names, run by run, the character each run was started for
DollOptimizing(doll, timer, startedFor) ==
    [results |-> << >>, isOptimizing |-> TRUE, hasOptimized |-> FALSE,
     errorMsg |-> "", from |-> 0,
     selectedDoll |-> doll, timer |-> timer, startedFor |-> startedFor]

\* a character was selected and the first run was started for it
DollInit ==
    /\ pc = "construct"
    /\ \E doll \in Dolls : \E inv \in DollInventories :
          /\ request = DollRequest(doll, inv)
          /\ app = DollOptimizing(doll, FALSE, <<doll>>)
    /\ received = request
    /\ categoryMap = EmptyMap
    /\ skillMaxLevels = EmptyMap
    /\ relics = << >>
    /\ validBuilds = << >>
    /\ buildSet = << >>
    /\ passed = {}
    /\ log = << >>
    /\ posted = << >>
    /\ prev = NoPrev
    /\ answers = {}
    /\ inbox = << >>
    /\ run = 1

\* the Back button: setSelectedDoll(null); setResults([]);
\* setHasOptimized(false); the cleanup of the effect clears its timeout.
\* The worker is left as it is.
BackButton ==
    /\ app.selectedDoll # NoDoll
    /\ app' = [app EXCEPT !.selectedDoll = NoDoll,
                          !.results = << >>,
                          !.hasOptimized = FALSE,
                          !.timer = FALSE]
    /\ UNCHANGED <<pc, request, categoryMap, skillMaxLevels, relics, validBuilds,
                   buildSet, passed, log, posted, prev, received, answers,
                   inbox, run>>

\* a character button: setSelectedDoll(doll); the effect sets its timeout
SelectDoll ==
    /\ app.selectedDoll = NoDoll
    /\ \E doll \in Dolls :
          app' = [app EXCEPT !.selectedDoll = doll, !.timer = TRUE]
    /\ UNCHANGED <<pc, request, categoryMap, skillMaxLevels, relics, validBuilds,
                   buildSet, passed, log, posted, prev, received, answers,
                   inbox, run>>

\* startOptimization() for the selected character: the worker of the earlier
\* run is terminated, and a new worker is sent the character's request
StartFor(doll, timer) ==
    /\ run < MaxRuns
    /\ request' = DollRequest(doll, received.relics)
    /\ received' = request'
    /\ app' = DollOptimizing(doll, timer, Append(app.startedFor, doll))
    /\ inbox' = Terminate(inbox)
    /\ run' = run + 1
    /\ pc' = "construct"
    /\ posted' = << >>
    /\ prev' = NoPrev
    /\ SolverGone
    /\ UNCHANGED answers

\* the timeout of the debounced effect calls startOptimization
DebounceFires ==
    /\ app.timer
    /\ StartFor(app.selectedDoll, FALSE)

\* the Run Optimizer button calls startOptimization
RunOptimizerButton ==
    /\ app.selectedDoll # NoDoll
    /\ StartFor(app.selectedDoll, app.timer)

DollNext ==
    \/ BackButton
    \/ SelectDoll
    \/ DebounceFires
    \/ RunOptimizerButton
    \/ Construct
    \/ SolveReduce
    \/ SolveSearch
    \/ SolveSort
    \/ PostDone
    \/ PostError
    \/ HandlerReturn
    \/ AppOnMessage

DollSpec == DollInit /\ [][DollNext]_vars

\* C30: whenever the App holds a non-empty result list while a character is
\* selected, the list came from a run that was started for that character.
C30_ResultsOfSelectedDoll ==
    (app.selectedDoll # NoDoll /\ app.results # << >>) =>
        /\ app.from \in 1..Len(app.startedFor)
        /\ app.startedFor[app.from] = app.selectedDoll

=============================================================================
